---- MODULE Spec2Model ----
(***************************************************************************)
(* Sprint calendar (wowlocal/simple-sprint-planner): the page component's  *)
(* state (sprints, colorIndex, selectedSprintId), the localStorage entry   *)
(* it is saved to, the file reads an import has started, and the handlers  *)
(* of src/app/page.tsx and src/components/year-view.tsx.                   *)
(*                                                                         *)
(* A Date is an integer number of ticks of local time; a day is            *)
(* TicksPerDay ticks, so tick t lies in day t \div TicksPerDay at          *)
(* time-of-day t % TicksPerDay.  InvalidDate is the Date whose time value  *)
(* is NaN.                                                                 *)
(***************************************************************************)
EXTENDS Integers, Sequences, FiniteSets, TLC

\* ---------------------------------------------------------------- bounds
TicksPerDay == 2
NumDays == 3
MaxSprints == 2
MaxCreated == 2
MaxPending == 1
MaxRotation == 2
MaxFileLen == 3

\* ------------------------------------------------------- program constants
sprintColors ==
  << "bg-red-200 hover:bg-red-300",
     "bg-blue-200 hover:bg-blue-300",
     "bg-green-200 hover:bg-green-300",
     "bg-yellow-200 hover:bg-yellow-300",
     "bg-purple-200 hover:bg-purple-300",
     "bg-pink-200 hover:bg-pink-300",
     "bg-indigo-200 hover:bg-indigo-300",
     "bg-orange-200 hover:bg-orange-300",
     "bg-teal-200 hover:bg-teal-300",
     "bg-cyan-200 hover:bg-cyan-300",
     "bg-lime-200 hover:bg-lime-300",
     "bg-emerald-200 hover:bg-emerald-300",
     "bg-sky-200 hover:bg-sky-300",
     "bg-fuchsia-200 hover:bg-fuchsia-300",
     "bg-amber-200 hover:bg-amber-300",
     "bg-rose-200 hover:bg-rose-300",
     "bg-violet-200 hover:bg-violet-300",
     "bg-slate-200 hover:bg-slate-300",
     "bg-neutral-200 hover:bg-neutral-300",
     "bg-stone-200 hover:bg-stone-300" >>

\* JavaScript values that are not strings of the program
null == "<null>"
undefined == "<undefined>"

\* sprintColors.length
PaletteSize == Len(sprintColors)

\* sprintColors[i], i counted from 0 as in the source; undefined outside it
PaletteAt(i) == IF i \in 0 .. (PaletteSize - 1) THEN sprintColors[i + 1] ELSE undefined

\* --------------------------------------------------------------- Dates
InvalidDate == -1

\* undefined where a Date is expected: useState<Date | undefined>(undefined)
NoDate == -2

Timestamps == 0 .. (NumDays * TicksPerDay - 1)

\* the calendar day a valid Date lies in
DayOf(t) == t \div TicksPerDay

\* d.setHours(0, 0, 0, 0): local midnight of the same day; NaN stays NaN
SetHoursZero(t) == IF t = InvalidDate THEN InvalidDate ELSE t - (t % TicksPerDay)

\* a >= b and a <= b on Dates: false as soon as one side is NaN
DateGe(a, b) == a # InvalidDate /\ b # InvalidDate /\ a >= b
DateLe(a, b) == a # InvalidDate /\ b # InvalidDate /\ a <= b
\* a < b on two Dates
DateLt(a, b) == a # InvalidDate /\ b # InvalidDate /\ a < b

\* addDays(date, n) of date-fns: same time of day, n days later
addDays(t, n) == IF t = InvalidDate THEN InvalidDate ELSE t + n * TicksPerDay

\* ------------------------------------------------------ selection lookups
\* mutant: the probe date keeps its time of day
InRangeProbeNotReset(sprint, date) ==
  LET startDate == SetHoursZero(sprint.startDate)
      endDate == SetHoursZero(sprint.endDate)
  IN  DateGe(date, startDate) /\ DateLe(date, endDate)

\* checkDate >= startDate && checkDate <= endDate after the three setHours
InRangeNormalized(sprint, date) ==
  LET checkDate == SetHoursZero(date)
      startDate == SetHoursZero(sprint.startDate)
      endDate == SetHoursZero(sprint.endDate)
  IN  DateGe(checkDate, startDate) /\ DateLe(checkDate, endDate)

\* SprintList.isDateInSprint(sprint, date): isWithinInterval of date-fns on
\* the Dates as they are, with their time of day; it throws on an Invalid
\* Date and on an interval that ends before it starts, and the catch
\* returns false
isDateInSprint(sprint, date) ==
  IF \/ sprint.startDate = InvalidDate
     \/ sprint.endDate = InvalidDate
     \/ sprint.startDate > sprint.endDate
  THEN FALSE
  ELSE DateGe(date, sprint.startDate) /\ DateLe(date, sprint.endDate)

\* if (selectedSprintId): null, undefined and the empty string are falsy
Truthy(id) == id # null /\ id # undefined /\ id # ""

\* Array.prototype.find as the position (1..Len) of the element it returns,
\* 0 for undefined; scans from position i upward
RECURSIVE FindById(_, _, _)
FindById(list, id, i) ==
  IF i > Len(list) THEN 0
  ELSE IF list[i].id = id THEN i
  ELSE FindById(list, id, i + 1)

\* mutant: the last sprint containing the date instead of the first
RECURSIVE FindLastContaining(_, _, _)
FindLastContaining(list, date, i) ==
  IF i > Len(list) THEN 0
  ELSE LET later == FindLastContaining(list, date, i + 1)
       IN  IF later # 0 THEN later
           ELSE IF InRangeNormalized(list[i], date) THEN i ELSE 0

RECURSIVE FindContaining(_, _, _)
FindContaining(list, date, i) ==
  IF i > Len(list) THEN 0
  ELSE IF InRangeNormalized(list[i], date) THEN i
  ELSE FindContaining(list, date, i + 1)

\* mutant: the selected sprint gets no precedence
getSprintForDateUnpinned(list, selId, date) == FindContaining(list, date, 1)

\* getSprintForDate(date) with the component's sprints and selectedSprintId;
\* the result is the position of the returned sprint, 0 for undefined
getSprintForDate(list, selId, date) ==
  LET selectedSprint == IF Truthy(selId) THEN FindById(list, selId, 1) ELSE 0
  IN  IF selectedSprint # 0 /\ InRangeNormalized(list[selectedSprint], date)
      THEN selectedSprint
      ELSE FindContaining(list, date, 1)

\* mutant: without the selected sprint, any sprint containing the date counts
isDateInAnySprint(list, selId, date) ==
  IF ~Truthy(selId) THEN FALSE
  ELSE LET selectedSprint == FindById(list, selId, 1)
       IN  IF selectedSprint = 0 THEN FindContaining(list, date, 1) # 0
           ELSE InRangeNormalized(list[selectedSprint], date)

\* isDateInSelectedSprint(date)
isDateInSelectedSprint(list, selId, date) ==
  IF ~Truthy(selId) THEN FALSE
  ELSE LET selectedSprint == FindById(list, selId, 1)
       IN  IF selectedSprint = 0 THEN FALSE
           ELSE InRangeNormalized(list[selectedSprint], date)

\* ------------------------------------------------------------ JSON text
\* Date.prototype.toISOString: the text of a time value
toISOString(t) == [tag |-> "iso", ms |-> t]

\* a JSON field that is absent (reads as undefined) and the JSON null
JsonAbsent == [tag |-> "undefined", ms |-> 0]
JsonNull == [tag |-> "null", ms |-> 0]

\* new Date(value) for what JSON.parse hands over: an ISO string gives its
\* time value, undefined gives NaN, null gives the epoch
NewDate(v) ==
  IF v.tag = "iso" THEN v.ms
  ELSE IF v.tag = "null" THEN 0
  ELSE InvalidDate

\* mutant: the date is written without its time of day
ReplaceDateDayOnly(t) ==
  IF t = InvalidDate THEN toISOString(0) ELSE toISOString(SetHoursZero(t))

\* the replacer of JSON.stringify at key startDate / endDate.  The value it
\* sees has been through Date.prototype.toJSON: an ISO string, or null for
\* an invalid Date, and new Date(null).toISOString() is the epoch
ReplaceDate(t) == IF t = InvalidDate THEN toISOString(0) ELSE toISOString(t)

\* one sprint as JSON.stringify writes it, and as the loaders read it back
SprintToJson(s) ==
  [s EXCEPT !.startDate = ReplaceDate(@), !.endDate = ReplaceDate(@)]

SprintFromJson(j) ==
  [j EXCEPT !.startDate = NewDate(@), !.endDate = NewDate(@)]

\* JSON.stringify of the sprints array, and savedSprints.map / importedSprints.map
SprintsToJson(list) == [i \in 1 .. Len(list) |-> SprintToJson(list[i])]

SprintsFromJson(list) == [i \in 1 .. Len(list) |-> SprintFromJson(list[i])]

\* the text the save effect writes: {sprints, colorIndex}
SaveText(list, index) ==
  [kind |-> "envelope", sprints |-> SprintsToJson(list), colorIndex |-> index]

\* the text exportSprints offers: the bare array
ExportText(list) ==
  [kind |-> "array", sprints |-> SprintsToJson(list), colorIndex |-> 0]

\* localStorage.getItem of a key never written
NoText == [kind |-> "absent", sprints |-> << >>, colorIndex |-> 0]

\* a text JSON.parse rejects
GarbageText == [kind |-> "garbage", sprints |-> << >>, colorIndex |-> 0]

\* a text JSON.parse accepts that is neither an array nor an object with a
\* sprints array: null, a number, a string, {}.  The load effect's
\* savedSprints.map and the import's importedSprints.map throw on it
OtherJsonText == [kind |-> "other", sprints |-> << >>, colorIndex |-> 0]

\* sprintColors.indexOf(color): position counted from 0, -1 when absent
RECURSIVE IndexOfFrom(_, _)
IndexOfFrom(color, i) ==
  IF i >= PaletteSize THEN -1
  ELSE IF PaletteAt(i) = color THEN i
  ELSE IndexOfFrom(color, i + 1)

indexOf(color) == IndexOfFrom(color, 0)

\* let maxIndex = 0; forEach: if (index > maxIndex) maxIndex = index
RECURSIVE MaxIndexFrom(_, _, _)
MaxIndexFrom(list, i, maxIndex) ==
  IF i > Len(list) THEN maxIndex
  ELSE LET index == indexOf(list[i].color)
       IN  MaxIndexFrom(list, i + 1, IF index > maxIndex THEN index ELSE maxIndex)

\* mutant: the cursor is the highest index found, not one past it
ImportColorIndexAtMax(list) == MaxIndexFrom(list, 1, 0) % PaletteSize

\* the colorIndex importSprints sets
ImportColorIndex(list) == (MaxIndexFrom(list, 1, 0) + 1) % PaletteSize

\* ------------------------------------------------------------- state
VARIABLES
  sprints,           \* useState<Sprint[]>([])
  colorIndex,        \* useState(0)
  selectedSprintId,  \* useState<string | null>(null)
  storage,           \* localStorage[STORAGE_KEY]
  mounted,           \* whether the mount effects have run
  pending,           \* texts of the files a FileReader is reading
  created,           \* history: addSprint calls since the store was last reset
  lastOp,            \* history: the handler that ran last, the id it was given
                     \* and the selectedSprintId it found
  editingSprint,     \* SprintList: useState<string | null>(null)
  editName,          \* SprintList: useState("")
  editDescription,   \* SprintList: useState<string>("")
  editStartDate,     \* SprintList: useState<Date | undefined>(undefined)
  editEndDate,       \* SprintList: useState<Date | undefined>(undefined)
  datePickerView,    \* SprintList: useState<"start" | "end" | null>(null)
  currentPage,       \* SprintList with pagination: useState(1)
  files              \* the texts of the files exportSprints has offered for download

\* the state of the SprintList component
editVars ==
  << editingSprint, editName, editDescription, editStartDate, editEndDate, datePickerView,
     currentPage >>

vars ==
  << sprints, colorIndex, selectedSprintId, storage, mounted, pending, created, lastOp,
     editingSprint, editName, editDescription, editStartDate, editEndDate, datePickerView,
     currentPage, files >>

Op(name, arg) == [name |-> name, arg |-> arg, sel |-> selectedSprintId]

\* Date.now().toString()
NowToString(now) ==
  CASE now = 1 -> "1"
    [] now = 2 -> "2"
    [] now = 3 -> "3"
    [] OTHER -> "4"

\* mutant: the effect writes the cursor of the render before
SaveEffectStaleCursor == storage' = SaveText(sprints', colorIndex)

\* the save effect: runs after every render in which sprints or colorIndex
\* were set, and writes both
SaveEffect == storage' = SaveText(sprints', colorIndex')

\* mutant: the saved colorIndex is not read back
LoadEffectSprintsOnly(text, list, index) ==
  IF text.kind = "envelope"
  THEN << SprintsFromJson(text.sprints), index >>
  ELSE << list, index >>

\* the load effect on the text found in storage: the pair it sets, or the
\* pair given when it sets nothing (nothing stored, JSON.parse throws, or
\* savedSprints.map throws because the text is no {sprints, colorIndex})
LoadEffect(text, list, index) ==
  IF text.kind = "envelope"
  THEN << SprintsFromJson(text.sprints), text.colorIndex >>
  ELSE << list, index >>

\* SprintList renders format(new Date(sprint.startDate), "MMM d") and the
\* same of endDate for every row, and format throws on an Invalid Date
RenderThrows(list) ==
  \E i \in 1 .. Len(list) :
    list[i].startDate = InvalidDate \/ list[i].endDate = InvalidDate

\* what an error thrown while rendering leaves: the tree is unmounted, every
\* component's state is gone and the page has to be opened again
Unmounted ==
  /\ sprints' = << >>
  /\ colorIndex' = 0
  /\ selectedSprintId' = null
  /\ mounted' = FALSE
  /\ pending' = {}
  /\ editingSprint' = null
  /\ editName' = ""
  /\ editDescription' = ""
  /\ editStartDate' = NoDate
  /\ editEndDate' = NoDate
  /\ datePickerView' = null
  /\ currentPage' = 1

\* mount: the load effect, then the save effect of the state it leaves.  When
\* the loaded sprints cannot be rendered, the save effect has run once, on
\* the first render's empty state, and the loaded state is never committed
Mount ==
  /\ ~mounted
  /\ UNCHANGED files
  /\ LET loaded == LoadEffect(storage, sprints, colorIndex)
     IN  IF RenderThrows(loaded[1])
         THEN /\ Unmounted
              /\ storage' = SaveText(<< >>, 0)
              /\ lastOp' = Op("renderThrew", null)
              /\ UNCHANGED created
         ELSE /\ mounted' = TRUE
              /\ sprints' = loaded[1]
              /\ colorIndex' = loaded[2]
              /\ lastOp' = Op("mount", null)
              /\ UNCHANGED << selectedSprintId, pending, created >>
              /\ UNCHANGED editVars
              /\ SaveEffect

\* mount with both effects run twice, in the order load, save, load, save:
\* both saves write the first render's empty state, the second load reads
\* what the first save wrote, and the state set last is the one rendered
\* and saved
MountTwice ==
  /\ ~mounted
  /\ UNCHANGED files
  /\ LET first == LoadEffect(storage, sprints, colorIndex)
         loaded == LoadEffect(SaveText(sprints, colorIndex), first[1], first[2])
     IN  IF RenderThrows(loaded[1])
         THEN /\ Unmounted
              /\ storage' = SaveText(<< >>, 0)
              /\ lastOp' = Op("renderThrew", null)
              /\ UNCHANGED created
         ELSE /\ mounted' = TRUE
              /\ sprints' = loaded[1]
              /\ colorIndex' = loaded[2]
              /\ lastOp' = Op("mountTwice", null)
              /\ UNCHANGED << selectedSprintId, pending, created >>
              /\ UNCHANGED editVars
              /\ SaveEffect

\* the page is closed and opened again: nothing but storage survives
Reload ==
  /\ mounted
  /\ Unmounted
  /\ lastOp' = [name |-> "reload", arg |-> << sprints, colorIndex >>, sel |-> selectedSprintId]
  /\ UNCHANGED << storage, files, created >>

\* a % n of JavaScript: the remainder has the sign of a
Remainder(a, n) == IF a >= 0 THEN a % n ELSE 0 - ((0 - a) % n)

\* mutant: the cursor advances without wrapping
addSprintNoWrap(sprint, now) ==
  LET newSprint ==
        [id |-> NowToString(now), name |-> sprint.name, description |-> sprint.description,
         startDate |-> sprint.startDate, endDate |-> sprint.endDate,
         color |-> PaletteAt(colorIndex)]
  IN  /\ sprints' = Append(sprints, newSprint)
      /\ colorIndex' = colorIndex + 1

\* addSprint(sprint)
addSprint(sprint, now) ==
  LET newSprint ==
        [id |-> NowToString(now), name |-> sprint.name, description |-> sprint.description,
         startDate |-> sprint.startDate, endDate |-> sprint.endDate,
         color |-> PaletteAt(colorIndex)]
  IN  /\ sprints' = Append(sprints, newSprint)
      /\ colorIndex' = Remainder(colorIndex + 1, PaletteSize)

\* the days of the duration buttons
durationOptions == {7, 14, 21, 28}

\* CreateSprintDialog.handleDurationChange on the parsed text of the custom
\* duration input: selectedDuration afterwards (a text that is no number
\* parses to NaN, which fails the same test as 0)
handleDurationChange(selectedDuration, value) ==
  IF value > 0 THEN value ELSE selectedDuration

\* CreateSprintDialog.handleSubmit with the dialog's name, description,
\* startDate and selectedDuration
handleSubmit(name, description, startDate, selectedDuration, now) ==
  /\ mounted
  /\ UNCHANGED << selectedSprintId, mounted, pending >>
  /\ UNCHANGED editVars
  /\ UNCHANGED files
  /\ IF name = ""
     THEN \* if (!name || !startDate) return
          /\ lastOp' = Op("createRejected", null)
          /\ UNCHANGED << sprints, colorIndex, storage, created >>
     ELSE /\ lastOp' = Op("create", null)
          /\ addSprint([name |-> name, description |-> description, startDate |-> startDate,
                        endDate |-> addDays(startDate, selectedDuration - 1)], now)
          /\ created' = created + 1
          /\ SaveEffect

\* mutant: the list is cut at the first sprint with the id
FilterOutTruncating(list, id) ==
  IF \E i \in 1 .. Len(list) : list[i].id = id
  THEN SubSeq(list, 1, (CHOOSE i \in 1 .. Len(list) :
                          /\ list[i].id = id
                          /\ \A j \in 1 .. i - 1 : list[j].id # id) - 1)
  ELSE list

\* sprints.filter((sprint) => sprint.id !== id)
RECURSIVE FilterOut(_, _)
FilterOut(list, id) ==
  IF list = << >> THEN << >>
  ELSE IF Head(list).id # id THEN << Head(list) >> \o FilterOut(Tail(list), id)
  ELSE FilterOut(Tail(list), id)

\* mutant: the selection is left alone
deleteSprintKeepSelection(id) ==
  /\ mounted
  /\ sprints' = FilterOut(sprints, id)
  /\ lastOp' = Op("delete", id)
  /\ UNCHANGED << colorIndex, selectedSprintId, mounted, pending, created >>
  /\ UNCHANGED editVars
  /\ UNCHANGED files
  /\ SaveEffect

\* mutant: deleting a stored sprint gives its color back to the rotation
deleteSprintRewinds(id) ==
  /\ mounted
  /\ selectedSprintId' = IF selectedSprintId = id THEN null ELSE selectedSprintId
  /\ sprints' = FilterOut(sprints, id)
  /\ colorIndex' = IF sprints' # sprints /\ colorIndex > 0 THEN colorIndex - 1 ELSE colorIndex
  /\ lastOp' = Op("delete", id)
  /\ UNCHANGED << mounted, pending, created >>
  /\ UNCHANGED editVars
  /\ UNCHANGED files
  /\ SaveEffect

\* deleteSprint(id)
deleteSprint(id) ==
  /\ mounted
  /\ selectedSprintId' = IF selectedSprintId = id THEN null ELSE selectedSprintId
  /\ sprints' = FilterOut(sprints, id)
  /\ lastOp' = Op("delete", id)
  /\ UNCHANGED << colorIndex, mounted, pending, created >>
  /\ UNCHANGED editVars
  /\ UNCHANGED files
  /\ SaveEffect

\* updateSprint(updatedSprint)
updateSprint(updatedSprint) ==
  sprints' = [i \in 1 .. Len(sprints) |->
                IF sprints[i].id = updatedSprint.id THEN updatedSprint ELSE sprints[i]]

\* onUpdate, the update operation as SprintList receives it: updateSprint
\* and the save effect of the state it sets
onUpdate(updatedSprint) ==
  /\ mounted
  /\ updateSprint(updatedSprint)
  /\ lastOp' = Op("onUpdate", updatedSprint.id)
  /\ UNCHANGED << colorIndex, selectedSprintId, mounted, pending, created >>
  /\ UNCHANGED editVars
  /\ UNCHANGED files
  /\ SaveEffect

\* the frame of the SprintList handlers that only set list state
ListOnly ==
  UNCHANGED << sprints, colorIndex, selectedSprintId, storage, mounted, pending, created, files,
               currentPage >>

\* const itemsPerPage = 5 of the SprintList with pagination
itemsPerPage == 5

\* Math.ceil(sortedSprints.length / itemsPerPage)
totalPages == (Len(sprints) + itemsPerPage - 1) \div itemsPerPage

\* the place of sprints[i] in sortedSprints: later startDate first, and
\* store order among equal ones (Array.prototype.sort is stable)
SortedPosition(i) ==
  1 + Cardinality({j \in 1 .. Len(sprints) : sprints[j].startDate > sprints[i].startDate})
    + Cardinality({j \in 1 .. (i - 1) : sprints[j].startDate = sprints[i].startDate})

\* sprints[i] is one of currentSprints, the rows the list renders:
\* sortedSprints.slice(indexOfFirstSprint, indexOfLastSprint); without
\* pagination (sprint-list.tsx) currentPage stays 1 and every row is rendered
Visible(i) ==
  /\ (currentPage - 1) * itemsPerPage < SortedPosition(i)
  /\ SortedPosition(i) <= currentPage * itemsPerPage

\* goToPage(page)
goToPage(page) ==
  /\ mounted
  /\ currentPage' = IF page >= 1 /\ page <= totalPages THEN page ELSE currentPage
  /\ lastOp' = Op("goToPage", null)
  /\ UNCHANGED << sprints, colorIndex, selectedSprintId, storage, mounted, pending, created,
                  files >>
  /\ UNCHANGED << editingSprint, editName, editDescription, editStartDate, editEndDate,
                  datePickerView >>

\* SprintList.handleEdit(sprint): the Edit button of row i, which rows being
\* edited do not show
handleEdit(i) ==
  /\ mounted
  /\ i \in 1 .. Len(sprints)
  /\ Visible(i)
  /\ editingSprint # sprints[i].id
  /\ editingSprint' = sprints[i].id
  /\ editName' = sprints[i].name
  /\ editDescription' = (IF sprints[i].description \in {undefined, ""}
                         THEN "" ELSE sprints[i].description)
  /\ editStartDate' = sprints[i].startDate
  /\ editEndDate' = sprints[i].endDate
  /\ datePickerView' = null
  /\ lastOp' = Op("edit", sprints[i].id)
  /\ ListOnly

\* some row is rendered in edit mode
EditRowShown == \E i \in 1 .. Len(sprints) : sprints[i].id = editingSprint /\ Visible(i)

\* the name input's onChange
setEditName(value) ==
  /\ mounted
  /\ EditRowShown
  /\ editName' = value
  /\ lastOp' = Op("typeName", editingSprint)
  /\ UNCHANGED << editingSprint, editDescription, editStartDate, editEndDate, datePickerView >>
  /\ ListOnly

\* the description textarea's onChange
setEditDescription(value) ==
  /\ mounted
  /\ EditRowShown
  /\ editDescription' = value
  /\ lastOp' = Op("typeDescription", editingSprint)
  /\ UNCHANGED << editingSprint, editName, editStartDate, editEndDate, datePickerView >>
  /\ ListOnly

\* the start date and end date buttons: open that picker, or close it
toggleDatePicker(which) ==
  /\ mounted
  /\ EditRowShown
  /\ datePickerView' = IF datePickerView = which THEN null ELSE which
  /\ lastOp' = Op("picker", editingSprint)
  /\ UNCHANGED << editingSprint, editName, editDescription, editStartDate, editEndDate >>
  /\ ListOnly

\* the picker's disabled prop
PickerDisabled(date) ==
  IF datePickerView = "end" /\ editStartDate # NoDate
  THEN DateLt(date, editStartDate)
  ELSE FALSE

\* mutant: a start date after the end date leaves the end date
calendarOnSelectNoBump(date) ==
  /\ mounted
  /\ EditRowShown
  /\ datePickerView # null
  /\ IF datePickerView = "start"
     THEN editStartDate' = date /\ UNCHANGED editEndDate
     ELSE editEndDate' = date /\ UNCHANGED editStartDate
  /\ lastOp' = Op("pick", editingSprint)
  /\ UNCHANGED << editingSprint, editName, editDescription, datePickerView >>
  /\ ListOnly

\* the picker's onSelect: date is the day clicked, or undefined when the
\* day clicked is the selected one (single mode deselects it)
calendarOnSelect(date) ==
  /\ mounted
  /\ EditRowShown
  /\ datePickerView # null
  /\ IF datePickerView = "start"
     THEN /\ editStartDate' = date
          /\ editEndDate' =
               IF editEndDate # NoDate /\ date # NoDate /\ DateLt(editEndDate, date)
               THEN date ELSE editEndDate
     ELSE /\ editEndDate' = date
          /\ UNCHANGED editStartDate
  /\ lastOp' = Op("pick", editingSprint)
  /\ UNCHANGED << editingSprint, editName, editDescription, datePickerView >>
  /\ ListOnly

\* SprintList.handleSave(sprint): the Save button of row i, which only the
\* rows being edited show
handleSave(i) ==
  /\ mounted
  /\ i \in 1 .. Len(sprints)
  /\ Visible(i)
  /\ editingSprint = sprints[i].id
  /\ UNCHANGED << colorIndex, selectedSprintId, mounted, pending, created, files >>
  /\ UNCHANGED << editName, editDescription, editStartDate, editEndDate, currentPage >>
  /\ IF editName = "" \/ editStartDate = NoDate \/ editEndDate = NoDate
     THEN \* if (!editName || !editStartDate || !editEndDate) return
          /\ lastOp' = Op("updateRejected", sprints[i].id)
          /\ UNCHANGED << sprints, storage, editingSprint, datePickerView >>
     ELSE /\ lastOp' = Op("update", sprints[i].id)
          /\ updateSprint([sprints[i] EXCEPT !.name = editName,
                                             !.description = editDescription,
                                             !.startDate = editStartDate,
                                             !.endDate = editEndDate])
          /\ editingSprint' = null
          /\ datePickerView' = null
          /\ SaveEffect

\* SprintList.handleCancel()
handleCancel ==
  /\ mounted
  /\ EditRowShown
  /\ editingSprint' = null
  /\ datePickerView' = null
  /\ lastOp' = Op("cancel", editingSprint)
  /\ UNCHANGED << editName, editDescription, editStartDate, editEndDate >>
  /\ ListOnly

\* mutant: the cursor is not reset
clearAllKeepCursor ==
  /\ mounted
  /\ sprints' = << >>
  /\ selectedSprintId' = null
  /\ created' = 0
  /\ lastOp' = Op("clear", null)
  /\ UNCHANGED << colorIndex, mounted, pending >>
  /\ UNCHANGED editVars
  /\ UNCHANGED files
  /\ SaveEffect

\* clearAllSprints()
clearAllSprints ==
  /\ mounted
  /\ sprints' = << >>
  /\ selectedSprintId' = null
  /\ colorIndex' = 0
  /\ created' = 0
  /\ lastOp' = Op("clear", null)
  /\ UNCHANGED << mounted, pending >>
  /\ UNCHANGED editVars
  /\ UNCHANGED files
  /\ SaveEffect

\* exportSprints(): the bare array of the sprints is offered as a file
exportSprints ==
  /\ mounted
  /\ files' = files \cup {ExportText(sprints)}
  /\ lastOp' = Op("export", null)
  /\ UNCHANGED << sprints, colorIndex, selectedSprintId, storage, mounted, pending, created >>
  /\ UNCHANGED editVars

\* importSprints(): input.onchange with a file chosen starts reading it
importSprints(text) ==
  /\ mounted
  /\ Cardinality(pending) < MaxPending
  /\ pending' = pending \cup {text}
  /\ lastOp' = Op("choose", null)
  /\ UNCHANGED << sprints, colorIndex, selectedSprintId, storage, mounted, created >>
  /\ UNCHANGED editVars
  /\ UNCHANGED files

\* input.onchange with no file chosen: if (!file) return
importSprintsNoFile ==
  /\ mounted
  /\ lastOp' = Op("chooseNothing", null)
  /\ UNCHANGED << sprints, colorIndex, selectedSprintId, storage, mounted, pending, created >>
  /\ UNCHANGED editVars
  /\ UNCHANGED files

\* mutant: the sprints of the file are added to the stored ones and the
\* cursor is recomputed over all of them
readerOnloadMerges(text) ==
  /\ text \in pending
  /\ UNCHANGED files
  /\ IF text.kind = "array"
     THEN LET processedSprints == sprints \o SprintsFromJson(text.sprints)
          IN  IF RenderThrows(processedSprints)
              THEN /\ Unmounted
                   /\ lastOp' = Op("renderThrew", null)
                   /\ UNCHANGED << storage, created >>
              ELSE /\ pending' = pending \ {text}
                   /\ sprints' = processedSprints
                   /\ selectedSprintId' = null
                   /\ colorIndex' = ImportColorIndex(processedSprints)
                   /\ lastOp' = Op("import", null)
                   /\ UNCHANGED << mounted, created >>
                   /\ UNCHANGED editVars
                   /\ SaveEffect
     ELSE /\ pending' = pending \ {text}
          /\ lastOp' = Op("importFailed", text.kind)
          /\ UNCHANGED << sprints, selectedSprintId, colorIndex, storage, mounted, created >>
          /\ UNCHANGED editVars

\* mutant: the selection is cleared before the text is parsed
readerOnloadClearsFirst(text) ==
  /\ text \in pending
  /\ UNCHANGED files
  /\ pending' = pending \ {text}
  /\ selectedSprintId' = null
  /\ UNCHANGED << mounted, created >>
  /\ UNCHANGED editVars
  /\ IF text.kind = "array"
     THEN LET processedSprints == SprintsFromJson(text.sprints)
          IN  /\ sprints' = processedSprints
              /\ colorIndex' = ImportColorIndex(processedSprints)
              /\ lastOp' = Op("import", null)
              /\ SaveEffect
     ELSE /\ lastOp' = Op("importFailed", text.kind)
          /\ UNCHANGED << sprints, colorIndex, storage >>

\* mutant: the import leaves the selection alone
readerOnloadKeepSelection(text) ==
  /\ text \in pending
  /\ UNCHANGED files
  /\ IF text.kind = "array"
     THEN LET processedSprints == SprintsFromJson(text.sprints)
          IN  /\ pending' = pending \ {text}
              /\ sprints' = processedSprints
              /\ colorIndex' = ImportColorIndex(processedSprints)
              /\ lastOp' = Op("import", null)
              /\ UNCHANGED << selectedSprintId, mounted, created >>
              /\ UNCHANGED editVars
              /\ SaveEffect
     ELSE /\ pending' = pending \ {text}
          /\ lastOp' = Op("importFailed", text.kind)
          /\ UNCHANGED << sprints, selectedSprintId, colorIndex, storage, mounted, created >>
          /\ UNCHANGED editVars

\* reader.onload for one of the files being read
readerOnload(text) ==
  /\ text \in pending
  /\ UNCHANGED files
  /\ IF text.kind = "array"
     THEN LET processedSprints == SprintsFromJson(text.sprints)
          IN  IF RenderThrows(processedSprints)
              THEN \* the state set is never committed, the save effect never runs
                   /\ Unmounted
                   /\ lastOp' = Op("renderThrew", null)
                   /\ UNCHANGED << storage, created >>
              ELSE /\ pending' = pending \ {text}
                   /\ sprints' = processedSprints
                   /\ selectedSprintId' = null
                   /\ colorIndex' = ImportColorIndex(processedSprints)
                   /\ lastOp' = Op("import", null)
                   /\ UNCHANGED << mounted, created >>
                   /\ UNCHANGED editVars
                   /\ SaveEffect
     ELSE \* JSON.parse or importedSprints.map throws: console.error and alert
          /\ pending' = pending \ {text}
          /\ lastOp' = Op("importFailed", text.kind)
          /\ UNCHANGED << sprints, selectedSprintId, colorIndex, storage, mounted, created >>
          /\ UNCHANGED editVars

\* mutant: a select request always selects
onSprintSelectAlways(sprintId) == selectedSprintId' = sprintId

\* (sprintId) => setSelectedSprintId(sprintId === selectedSprintId ? null : sprintId)
onSprintSelect(sprintId) ==
  selectedSprintId' = IF sprintId = selectedSprintId THEN null ELSE sprintId

\* the onClick of row i of the list: handleSprintClick(sprint.id) unless the
\* row is the one being edited, and handleSprintClick acts only when no
\* sprint is being edited
handleSprintClick(i) ==
  /\ mounted
  /\ i \in 1 .. Len(sprints)
  /\ Visible(i)
  /\ IF editingSprint = null
     THEN /\ onSprintSelect(sprints[i].id)
          /\ lastOp' = Op("listClick", sprints[i].id)
     ELSE /\ UNCHANGED selectedSprintId
          /\ lastOp' = Op("listClickIgnored", sprints[i].id)
  /\ UNCHANGED << sprints, colorIndex, storage, mounted, pending, created >>
  /\ UNCHANGED editVars
  /\ UNCHANGED files

\* the id of the sprint a day cell was rendered with, null for none
OwnerId(date) ==
  LET sprint == getSprintForDate(sprints, selectedSprintId, date)
  IN  IF sprint = 0 THEN null ELSE sprints[sprint].id

\* Day.onClick of the month grid
MonthDayClick(date) ==
  /\ mounted
  /\ LET sprint == getSprintForDate(sprints, selectedSprintId, date)
     IN  IF sprint # 0
         THEN selectedSprintId' =
                IF sprints[sprint].id = selectedSprintId THEN null ELSE sprints[sprint].id
         ELSE selectedSprintId' = null
  /\ lastOp' = Op("monthClick", OwnerId(date))
  /\ UNCHANGED << sprints, colorIndex, storage, mounted, pending, created >>
  /\ UNCHANGED editVars
  /\ UNCHANGED files

\* the day button's onClick of the year grid
YearDayClick(date) ==
  /\ mounted
  /\ LET sprint == getSprintForDate(sprints, selectedSprintId, date)
     IN  IF sprint # 0
         THEN onSprintSelect(sprints[sprint].id)
         ELSE UNCHANGED selectedSprintId
  /\ lastOp' = Op("yearClick", OwnerId(date))
  /\ UNCHANGED << sprints, colorIndex, storage, mounted, pending, created >>
  /\ UNCHANGED editVars
  /\ UNCHANGED files

\* ------------------------------------------------------ bounded inputs
\* values of Date.now()
NowValues == {1, 2}

\* what the create dialog holds at submit: name, start date, duration (days)
CreateNames == {"", "A"}
CreateStarts == {0, TicksPerDay + 1}
CreateDurations == {2}

\* what is typed into the name input of an edit row
EditNames == {"", "B"}

\* the dates of the calendar cells: local midnight of each day
GridDates == {d * TicksPerDay : d \in 0 .. (NumDays - 1)}

\* a sprint as it stands in a file
FileSprint(id, color, start, end) ==
  [id |-> id, name |-> "Imported", description |-> undefined,
   startDate |-> toISOString(start), endDate |-> toISOString(end), color |-> color]

ArrayText(list) == [kind |-> "array", sprints |-> list, colorIndex |-> 0]

\* files offered to import: a bare array of two sprints, and a text that
\* is no JSON
ImportFiles ==
  { ArrayText(<< FileSprint("1", PaletteAt(7), 0, 1),
                 FileSprint("3", PaletteAt(1), TicksPerDay, TicksPerDay) >>),
    GarbageText }

\* what localStorage may hold when the page opens
InitialStorage ==
  { NoText,
    SaveText(<< [id |-> "1", name |-> "A", description |-> "", startDate |-> 0,
                 endDate |-> 1, color |-> PaletteAt(0)] >>, 1) }

\* --------------------------------------------------------- specification
\* the SprintList component as constructed, and no file exported yet
ListInit ==
  /\ files = {}
  /\ editingSprint = null
  /\ editName = ""
  /\ editDescription = ""
  /\ editStartDate = NoDate
  /\ editEndDate = NoDate
  /\ datePickerView = null
  /\ currentPage = 1

Init ==
  /\ sprints = << >>
  /\ colorIndex = 0
  /\ selectedSprintId = null
  /\ storage \in InitialStorage
  /\ mounted = FALSE
  /\ pending = {}
  /\ created = 0
  /\ lastOp = Op("init", null)
  /\ ListInit

Create ==
  \E name \in CreateNames, start \in CreateStarts, dur \in CreateDurations, now \in NowValues :
    /\ Len(sprints) < MaxSprints
    /\ created < MaxCreated
    /\ handleSubmit(name, "", start, dur, now)

\* the Delete button of a rendered row, which rows being edited do not show
Delete ==
  \E i \in 1 .. Len(sprints) :
    /\ Visible(i)
    /\ editingSprint # sprints[i].id
    /\ deleteSprint(sprints[i].id)

Edit == \E i \in 1 .. Len(sprints) : handleEdit(i)

TypeName == \E value \in EditNames : setEditName(value)

Save == \E i \in 1 .. Len(sprints) : handleSave(i)

Cancel == handleCancel

ClearAll == clearAllSprints

ImportChoose == \E text \in ImportFiles : importSprints(text)

ImportLoad == \E text \in pending : readerOnload(text)

ListClick == \E i \in 1 .. Len(sprints) : handleSprintClick(i)

MonthClick == \E date \in GridDates : MonthDayClick(date)

YearClick == \E date \in GridDates : YearDayClick(date)

Next ==
  \/ Mount
  \/ Create
  \/ Delete
  \/ ClearAll
  \/ ImportChoose
  \/ ImportLoad
  \/ ListClick
  \/ MonthClick
  \/ YearClick

Spec == Init /\ [][Next]_vars

\* ------------------------------------------------ the grids over any props
(* SpecView: the page with sprints and selectedSprintId drawn from bounded  *)
(* sets (overlapping and inverted ranges, shared ids, a selected id that no *)
(* sprint has, as the grids may be handed), and the three selection clicks. *)
ViewIds == {"1", "2"}

\* <<startDate, endDate>>: days 0-1, days 1-2 starting mid-day, day 1 only,
\* day 0 only, and an inverted range
ViewRanges ==
  { << 0, 2 * TicksPerDay - 1 >>,
    << TicksPerDay + 1, 2 * TicksPerDay >>,
    << TicksPerDay, TicksPerDay >>,
    << 1, 1 >>,
    << 2 * TicksPerDay, 1 >> }

ViewSprint(id, range) ==
  [id |-> id, name |-> "A", description |-> "", startDate |-> range[1],
   endDate |-> range[2], color |-> PaletteAt(0)]

ViewSprints == {ViewSprint(id, range) : id \in ViewIds, range \in ViewRanges}

ViewStores == UNION {[1 .. n -> ViewSprints] : n \in 0 .. MaxSprints}

InitView ==
  /\ sprints \in ViewStores
  /\ colorIndex = 0
  /\ selectedSprintId \in ViewIds \cup {null}
  /\ storage = SaveText(sprints, colorIndex)
  /\ mounted = TRUE
  /\ pending = {}
  /\ created = 0
  /\ lastOp = Op("init", null)
  /\ ListInit

ClickAnyMonthDay == \E date \in Timestamps : MonthDayClick(date)

ClickAnyYearDay == \E date \in Timestamps : YearDayClick(date)

NextView ==
  \/ ListClick
  \/ ClickAnyMonthDay
  \/ ClickAnyYearDay

SpecView == InitView /\ [][NextView]_vars

(* SpecContain: one sprint with every pair of start and end Date, and       *)
(* clicks on every Date.                                                    *)
InitContain ==
  /\ \E start \in Timestamps, end \in Timestamps :
       sprints = << ViewSprint("1", << start, end >>) >>
  /\ colorIndex = 1
  /\ selectedSprintId \in {null, "1"}
  /\ storage = SaveText(sprints, colorIndex)
  /\ mounted = TRUE
  /\ pending = {}
  /\ created = 1
  /\ lastOp = Op("init", null)
  /\ ListInit

NextContain ==
  \/ ClickAnyMonthDay
  \/ ClickAnyYearDay

SpecContain == InitContain /\ [][NextContain]_vars

(* SpecRotation: a page opened on an empty storage; creates, deletes, edits   *)
(* and clear-all, long enough for the cursor to go round the palette.        *)
InitRotation ==
  /\ sprints = << >>
  /\ colorIndex = 0
  /\ selectedSprintId = null
  /\ storage = NoText
  /\ mounted = FALSE
  /\ pending = {}
  /\ created = 0
  /\ lastOp = Op("init", null)
  /\ ListInit

CreateNext ==
  /\ Len(sprints) < MaxRotation
  /\ created <= PaletteSize
  /\ \E now \in NowValues : handleSubmit("A", "", 0, 2, now)

NextRotation ==
  \/ Mount
  \/ CreateNext
  \/ Delete
  \/ Edit
  \/ TypeName
  \/ Save
  \/ ClearAll

SpecRotation == InitRotation /\ [][NextRotation]_vars

(* SpecImport: a mounted page, fresh or holding one selected sprint from an  *)
(* earlier import, with one file being read: every array of up to MaxFileLen *)
(* sprints over ImportColors, a text that is no JSON, and a saved envelope.  *)
(* After the read, one sprint is created.                                    *)
ImportColors ==
  { PaletteAt(0), PaletteAt(1), PaletteAt(2), PaletteAt(7), PaletteAt(PaletteSize - 1),
    "bg-custom-200", undefined }

FileIds == << "f1", "f2", "f3", "f4", "f5" >>

ColorFile(colors) ==
  ArrayText([i \in 1 .. Len(colors) |-> FileSprint(FileIds[i], colors[i], 0, 1)])

ColorFiles ==
  {ColorFile(colors) : colors \in UNION {[1 .. n -> ImportColors] : n \in 0 .. MaxFileLen}}
    \cup {GarbageText, SaveText(<< >>, 5)}

EarlierImport == << SprintFromJson(FileSprint("9", PaletteAt(4), 0, 1)) >>

InitImport ==
  /\ \/ sprints = << >> /\ colorIndex = 0 /\ selectedSprintId = null
     \/ sprints = EarlierImport /\ colorIndex = 5 /\ selectedSprintId = "9"
  /\ storage = SaveText(sprints, colorIndex)
  /\ mounted = TRUE
  /\ pending \in {{text} : text \in ColorFiles}
  /\ created = 0
  /\ lastOp = Op("choose", null)
  /\ ListInit

CreateAfterImport ==
  /\ pending = {}
  /\ created < 1
  /\ handleSubmit("A", "", 0, 2, 1)

NextImport ==
  \/ ImportLoad
  \/ CreateAfterImport

SpecImport == InitImport /\ [][NextImport]_vars

(* SpecEdit: a mounted page opened on an empty storage; one sprint is        *)
(* created through the dialog and then edited with every control of the      *)
(* sprint list: Edit, the name and description inputs, both date pickers,    *)
(* Save and Cancel, with row clicks between.                                 *)
EditDescriptions == {"goal"}

\* what is typed into the custom duration input, parsed
DurationInputs == {-1, 0, 1, 2}

\* selectedDuration at submit: the default or a preset, or what a custom
\* input made of it
DialogDurations ==
  {14} \cup durationOptions \cup {handleDurationChange(14, value) : value \in DurationInputs}

InitEdit ==
  /\ sprints = << >>
  /\ colorIndex = 0
  /\ selectedSprintId = null
  /\ storage = SaveText(<< >>, 0)
  /\ mounted = TRUE
  /\ pending = {}
  /\ created = 0
  /\ lastOp = Op("mount", null)
  /\ ListInit

CreateFirst ==
  \E name \in CreateNames, start \in CreateStarts, dur \in DialogDurations :
    /\ sprints = << >>
    /\ handleSubmit(name, "", start, dur, 1)

TypeDescription == \E value \in EditDescriptions : setEditDescription(value)

TogglePicker == \E which \in {"start", "end"} : toggleDatePicker(which)

\* the selected day of the open picker
PickerSelected == IF datePickerView = "start" THEN editStartDate ELSE editEndDate

\* a click on a day of the open picker that is not disabled
Pick ==
  \E date \in GridDates :
    /\ datePickerView # null
    /\ ~PickerDisabled(date)
    /\ calendarOnSelect(IF PickerSelected # NoDate /\ DayOf(PickerSelected) = DayOf(date)
                        THEN NoDate ELSE date)

NextEdit ==
  \/ CreateFirst
  \/ Edit
  \/ TypeName
  \/ TypeDescription
  \/ TogglePicker
  \/ Pick
  \/ Save
  \/ Cancel
  \/ ListClick

SpecEdit == InitEdit /\ [][NextEdit]_vars

(* SpecPersist: the page opened on a storage that an earlier session wrote,  *)
(* used (create, delete, import), closed and opened again, any number of     *)
(* times.                                                                    *)
PersistCursors == {0, 7, PaletteSize - 1}

\* stores of an earlier session: none, and an imported sprint without a
\* description that runs over two days
PersistLists ==
  { << >>,
    << [id |-> "3", name |-> "Imported", description |-> undefined, startDate |-> 0,
        endDate |-> 2 * TicksPerDay - 1, color |-> "bg-custom-200"] >> }

PersistStorage ==
  {NoText} \cup {SaveText(list, index) : list \in PersistLists, index \in PersistCursors}

\* a file whose second sprint has no startDate
FileNoStart ==
  ArrayText(<< FileSprint("1", PaletteAt(7), 0, 1),
               [id |-> "5", name |-> "Imported", description |-> undefined,
                startDate |-> JsonAbsent, endDate |-> toISOString(1),
                color |-> PaletteAt(1)] >>)

InitPersist ==
  /\ sprints = << >>
  /\ colorIndex = 0
  /\ selectedSprintId = null
  /\ storage \in PersistStorage
  /\ mounted = FALSE
  /\ pending = {}
  /\ created = 0
  /\ lastOp = Op("init", null)
  /\ ListInit

\* a file whose sprint ends the day before it starts
FileInverted == ArrayText(<< FileSprint("6", PaletteAt(2), TicksPerDay, 0) >>)

\* a file whose sprint has neither name nor color
FileNoName ==
  ArrayText(<< [id |-> "7", name |-> undefined, description |-> undefined,
                startDate |-> toISOString(0), endDate |-> toISOString(1),
                color |-> undefined] >>)

InvalidFiles == {FileNoStart, FileInverted, FileNoName}

ImportChooseAny == \E text \in ImportFiles \cup InvalidFiles : importSprints(text)

NextPersist ==
  \/ Mount
  \/ Create
  \/ Delete
  \/ ImportChooseAny
  \/ ImportLoad
  \/ Reload

SpecPersist == InitPersist /\ [][NextPersist]_vars

(* SpecExport: a page opened on an empty storage where sprints are created  *)
(* and deleted, the store is exported once, and the exported file and other *)
(* files are imported.                                                       *)
InitExport ==
  /\ sprints = << >>
  /\ colorIndex = 0
  /\ selectedSprintId = null
  /\ storage = SaveText(<< >>, 0)
  /\ mounted = TRUE
  /\ pending = {}
  /\ created = 0
  /\ lastOp = Op("mount", null)
  /\ ListInit

CreateNamed ==
  \E start \in CreateStarts, now \in NowValues :
    /\ Len(sprints) < MaxSprints
    /\ created < MaxCreated
    /\ handleSubmit("A", "goal", start, 2, now)

\* the first export of the session
Export ==
  /\ files = {}
  /\ exportSprints

ImportChooseExported == \E text \in files \cup ImportFiles : importSprints(text)

NextExport ==
  \/ CreateNamed
  \/ Delete
  \/ Export
  \/ ImportChooseExported
  \/ ImportLoad

SpecExport == InitExport /\ [][NextExport]_vars

(* SpecCorrupt: the page opened on a storage that holds a good envelope or   *)
(* a text of another shape, then used, with files of every shape imported.   *)
GoodEnvelope ==
  SaveText(<< [id |-> "1", name |-> "A", description |-> "", startDate |-> 0,
               endDate |-> TicksPerDay, color |-> PaletteAt(6)] >>, 7)

GoodFile == ArrayText(<< FileSprint("3", PaletteAt(1), TicksPerDay, TicksPerDay) >>)

\* texts that are not what the load effect expects
CorruptStorage == {GarbageText, OtherJsonText, GoodFile}

\* texts that are not what the import expects
CorruptFiles == {GarbageText, OtherJsonText, GoodEnvelope}

InitCorrupt ==
  /\ sprints = << >>
  /\ colorIndex = 0
  /\ selectedSprintId = null
  /\ storage \in CorruptStorage \cup {GoodEnvelope}
  /\ mounted = FALSE
  /\ pending = {}
  /\ created = 0
  /\ lastOp = Op("init", null)
  /\ ListInit

ImportChooseShape == \E text \in CorruptFiles \cup {GoodFile} : importSprints(text)

NextCorrupt ==
  \/ Mount
  \/ Create
  \/ ListClick
  \/ ImportChooseShape
  \/ ImportLoad

SpecCorrupt == InitCorrupt /\ [][NextCorrupt]_vars

(* SpecStore: the store operations of a mounted page opened on an empty     *)
(* storage: create with any clock value, the edit row (Edit, name, Save),    *)
(* clear-all and the row click; and update and delete called, as SprintList  *)
(* may call them, with any id.                                               *)
StoreIds == {NowToString(now) : now \in NowValues} \cup {"9"}

UpdateAny ==
  \E id \in StoreIds :
    onUpdate([id |-> id, name |-> "B", description |-> "", startDate |-> 0,
              endDate |-> TicksPerDay, color |-> PaletteAt(5)])

DeleteAny == \E id \in StoreIds : deleteSprint(id)

InitStore ==
  /\ sprints = << >>
  /\ colorIndex = 0
  /\ selectedSprintId = null
  /\ storage = SaveText(<< >>, 0)
  /\ mounted = TRUE
  /\ pending = {}
  /\ created = 0
  /\ lastOp = Op("mount", null)
  /\ ListInit

NextStore ==
  \/ CreateNamed
  \/ Edit
  \/ TypeName
  \/ Save
  \/ UpdateAny
  \/ DeleteAny
  \/ ClearAll
  \/ ListClick

SpecStore == InitStore /\ [][NextStore]_vars

(* SpecPage: the whole page from startup: every mutation of the store      *)
(* (create, update, delete, clear-all, import), the clicks on the list and   *)
(* on both grids, and an export of the store as it is before the session's   *)
(* first create.                                                             *)
\* a create for which the clock has advanced since the one before
CreateTicking ==
  /\ Len(sprints) < MaxSprints
  /\ created < MaxCreated
  /\ handleSubmit("A", "goal", 0, 2, created + 1)

ExportBeforeCreate ==
  /\ created = 0
  /\ Export

NextPage ==
  \/ Mount
  \/ CreateTicking
  \/ UpdateAny
  \/ Delete
  \/ ClearAll
  \/ ImportChoose
  \/ ImportLoad
  \/ ListClick
  \/ MonthClick
  \/ YearClick
  \/ ExportBeforeCreate

SpecPage == Init /\ [][NextPage]_vars

(* SpecAsync: a mounted page holding a selected sprint while two files are  *)
(* being read: the store operations and the list click run before, between  *)
(* and after the two reads; then further files are chosen, or none.          *)
AsyncFiles ==
  { ArrayText(<< FileSprint("1", PaletteAt(7), 0, 1),
                 FileSprint("3", PaletteAt(1), TicksPerDay, TicksPerDay) >>),
    ArrayText(<< FileSprint("2", PaletteAt(3), TicksPerDay, TicksPerDay + 1) >>) }

InitAsync ==
  /\ sprints = << [id |-> "1", name |-> "A", description |-> "goal", startDate |-> 0,
                   endDate |-> TicksPerDay, color |-> PaletteAt(0)] >>
  /\ colorIndex = 1
  /\ selectedSprintId = "1"
  /\ storage = SaveText(sprints, colorIndex)
  /\ mounted = TRUE
  /\ pending = AsyncFiles
  /\ created = 0
  /\ lastOp = Op("choose", null)
  /\ ListInit

ImportChooseNothing == importSprintsNoFile

NextAsync ==
  \/ CreateTicking
  \/ UpdateAny
  \/ Delete
  \/ ClearAll
  \/ ListClick
  \/ ImportChoose
  \/ ImportChooseNothing
  \/ ImportLoad

SpecAsync == InitAsync /\ [][NextAsync]_vars

(* SpecCursor: the page opened on an envelope whose colorIndex is any       *)
(* integer, inside the palette or not, then used, closed and opened again.   *)
StoredCursors == {0, PaletteSize - 1, PaletteSize + 5, 0 - 3}

InitCursor ==
  /\ sprints = << >>
  /\ colorIndex = 0
  /\ selectedSprintId = null
  /\ storage \in {SaveText(<< >>, index) : index \in StoredCursors}
  /\ mounted = FALSE
  /\ pending = {}
  /\ created = 0
  /\ lastOp = Op("init", null)
  /\ ListInit

NextCursor ==
  \/ Mount
  \/ CreateTicking
  \/ Delete
  \/ ClearAll
  \/ ImportChoose
  \/ ImportLoad
  \/ Reload

SpecCursor == InitCursor /\ [][NextCursor]_vars

(* SpecStartup: the page opened on a storage that an earlier session wrote, *)
(* with the mount effects run once or twice, then used, closed and opened    *)
(* again.                                                                    *)
NextStartup ==
  \/ Mount
  \/ MountTwice
  \/ CreateTicking
  \/ Delete
  \/ Reload

SpecStartup == InitPersist /\ [][NextStartup]_vars

(* SpecPaged: the SprintList with pagination on a page that holds one       *)
(* sprint more than a list page shows: page navigation, the edit row and    *)
(* the buttons of the rendered rows, create, clear-all, import.             *)
PagedIds == << "11", "12", "13", "14", "15", "16" >>

PagedSprint(i) ==
  [id |-> PagedIds[i], name |-> "A", description |-> "", startDate |-> (i % 2) * TicksPerDay,
   endDate |-> TicksPerDay, color |-> PaletteAt(i - 1)]

InitPaged ==
  /\ sprints = [i \in 1 .. (itemsPerPage + 1) |-> PagedSprint(i)]
  /\ colorIndex = itemsPerPage + 1
  /\ selectedSprintId = null
  /\ storage = SaveText(sprints, colorIndex)
  /\ mounted = TRUE
  /\ pending = {}
  /\ created = 0
  /\ lastOp = Op("mount", null)
  /\ ListInit

\* the pagination links, shown when there is more than one page: Previous,
\* Next and the page numbers
GoToPage ==
  /\ totalPages > 1
  /\ \E page \in {currentPage - 1, currentPage + 1} \cup (1 .. totalPages) : goToPage(page)

\* a create on a store that fills at most one list page
CreatePaged ==
  /\ Len(sprints) <= itemsPerPage
  /\ created < MaxCreated
  /\ handleSubmit("A", "goal", 0, 2, created + 1)

NextPaged ==
  \/ GoToPage
  \/ Edit
  \/ Save
  \/ Cancel
  \/ Delete
  \/ CreatePaged
  \/ ClearAll
  \/ ImportChoose
  \/ ImportLoad

SpecPaged == InitPaged /\ [][NextPaged]_vars

\* ------------------------------------------------------------- claims
\* day-granular containment, stated on the days themselves
DayInRange(sprint, date) ==
  /\ DayOf(sprint.startDate) <= DayOf(date)
  /\ DayOf(date) <= DayOf(sprint.endDate)

\* the sprint selectedSprintId refers to: the first one with that id, 0 if none
Referred == 
  IF selectedSprintId # null /\ \E i \in 1 .. Len(sprints) : sprints[i].id = selectedSprintId
  THEN CHOOSE i \in 1 .. Len(sprints) :
         /\ sprints[i].id = selectedSprintId
         /\ \A j \in 1 .. (i - 1) : sprints[j].id # selectedSprintId
  ELSE 0

\* the first sprint in store order whose days contain the date, 0 if none
FirstOwner(date) ==
  IF \E i \in 1 .. Len(sprints) : DayInRange(sprints[i], date)
  THEN CHOOSE i \in 1 .. Len(sprints) :
         /\ DayInRange(sprints[i], date)
         /\ \A j \in 1 .. (i - 1) : ~DayInRange(sprints[j], date)
  ELSE 0

\* C1: whenever selectedSprintId refers to a sprint S whose days contain D,
\* getSprintForDate(D) returns S, whichever other sprints contain D and
\* wherever they stand in the store.
C1_SelectionPrecedence ==
  \A date \in Timestamps :
    (Referred # 0 /\ DayInRange(sprints[Referred], date))
      => getSprintForDate(sprints, selectedSprintId, date) = Referred

\* a selected sprint that is not the first one containing a date it owns
C1_Witness ==
  \E date \in Timestamps :
    /\ Referred > 1
    /\ DayInRange(sprints[Referred], date)
    /\ DayInRange(sprints[1], date)
    /\ sprints[1].id # selectedSprintId
    /\ getSprintForDate(sprints, selectedSprintId, date) = Referred
    /\ lastOp.name = "listClick"

\* C2: with nothing selected, a selected id no sprint has, or a selected sprint
\* whose days do not contain D, getSprintForDate(D) returns the first sprint in
\* store order whose days contain D, and undefined iff there is none.
C2_OwnerFallback ==
  \A date \in Timestamps :
    (Referred = 0 \/ ~DayInRange(sprints[Referred], date))
      => /\ getSprintForDate(sprints, selectedSprintId, date) = FirstOwner(date)
         /\ (getSprintForDate(sprints, selectedSprintId, date) = 0)
              <=> (\A i \in 1 .. Len(sprints) : ~DayInRange(sprints[i], date))

\* a selected id that no sprint has, left in place by a year-grid click on a
\* date without owner: a date the second sprint owns because the first does not
\* contain it, and a date two sprints contain
C2_Witness ==
  /\ selectedSprintId # null
  /\ Referred = 0
  /\ Len(sprints) >= 2
  /\ \E date \in Timestamps :
       /\ ~DayInRange(sprints[1], date)
       /\ getSprintForDate(sprints, selectedSprintId, date) = 2
  /\ \E date \in Timestamps :
       /\ DayInRange(sprints[1], date) /\ DayInRange(sprints[2], date)
       /\ getSprintForDate(sprints, selectedSprintId, date) = 1
  /\ \E date \in Timestamps : getSprintForDate(sprints, selectedSprintId, date) = 0
  /\ lastOp = [name |-> "yearClick", arg |-> null, sel |-> selectedSprintId]

\* the Date of the same day at another time of day
AtTimeOfDay(t, tod) == DayOf(t) * TicksPerDay + tod

\* C3: the containment test of the grids is true iff
\* day(startDate) <= day(D) <= day(endDate); so it is true at D = startDate and
\* D = endDate exactly for the sprints whose start day is not after their end
\* day (the data model's startDate <= endDate), and it does not change when the time of day of D, startDate or endDate changes.
C3_DayContainment ==
  \A i \in 1 .. Len(sprints) : \A date \in Timestamps :
    LET S == sprints[i]
    IN  /\ InRangeNormalized(S, date) <=> DayInRange(S, date)
        /\ DayOf(S.startDate) <= DayOf(S.endDate)
             <=> InRangeNormalized(S, S.startDate) /\ InRangeNormalized(S, S.endDate)
        /\ \A a \in 0 .. (TicksPerDay - 1), b \in 0 .. (TicksPerDay - 1),
              c \in 0 .. (TicksPerDay - 1) :
             InRangeNormalized([S EXCEPT !.startDate = AtTimeOfDay(@, a),
                                         !.endDate = AtTimeOfDay(@, b)],
                               AtTimeOfDay(date, c))
               = InRangeNormalized(S, date)

\* a sprint that starts late in its first day and ends early in its last day,
\* clicked in the month grid on its first day before its start time
C3_Witness ==
  /\ Len(sprints) = 1
  /\ sprints[1].startDate % TicksPerDay > 0
  /\ sprints[1].endDate % TicksPerDay = 0
  /\ DayOf(sprints[1].startDate) < DayOf(sprints[1].endDate)
  /\ InRangeNormalized(sprints[1], SetHoursZero(sprints[1].startDate))
  /\ InRangeNormalized(sprints[1], sprints[1].endDate + TicksPerDay - 1)
  /\ lastOp = [name |-> "monthClick", arg |-> "1", sel |-> null]
  /\ selectedSprintId = "1"

\* C4: isDateInSelectedSprint(D) is true iff selectedSprintId is set, a sprint
\* has that id and its days contain D; with a selected id that no sprint has it
\* is false for every date.
C4_InSelection ==
  \A date \in Timestamps :
    /\ isDateInSelectedSprint(sprints, selectedSprintId, date)
         <=> (Referred # 0 /\ DayInRange(sprints[Referred], date))
    /\ (selectedSprintId # null /\ Referred = 0)
         => ~isDateInSelectedSprint(sprints, selectedSprintId, date)

\* a selected id that no sprint has (a year-grid click on a free date left it),
\* and a date some sprint contains: the owner lookup names that sprint
C4_Witness ==
  /\ selectedSprintId # null
  /\ Referred = 0
  /\ \E date \in Timestamps :
       /\ getSprintForDate(sprints, selectedSprintId, date) # 0
       /\ ~isDateInSelectedSprint(sprints, selectedSprintId, date)
  /\ lastOp = [name |-> "yearClick", arg |-> null, sel |-> selectedSprintId]

\* the handlers that ask for a sprint to be selected
SelectOps == {"listClick", "monthClick", "yearClick"}

\* C5: a select request for id A (list row, year grid or month grid) sets
\* selectedSprintId to A when A was not selected and to null when it was; so a
\* request for A right after one that selected A leaves nothing selected, and
\* selectedSprintId is never more than the one id asked for.
C5_Toggle ==
  [][(lastOp'.name \in SelectOps /\ lastOp'.arg # null)
       => /\ selectedSprintId' = IF selectedSprintId = lastOp'.arg THEN null ELSE lastOp'.arg
          /\ (lastOp.name \in SelectOps /\ lastOp.arg = lastOp'.arg /\ lastOp.sel # lastOp.arg)
               => selectedSprintId' = null]_vars

\* the month grid asked for the sprint that a click had just selected
C5_Witness ==
  /\ lastOp.name = "monthClick"
  /\ lastOp.arg # null
  /\ lastOp.sel = lastOp.arg
  /\ selectedSprintId = null
  /\ Len(sprints) = 2

Min(S) == CHOOSE x \in S : \A y \in S : x <= y
Max(S) == CHOOSE x \in S : \A y \in S : x >= y

\* C6: deleteSprint(id) of the selected id leaves selectedSprintId null, and
\* then getSprintForDate(D) is undefined when no other sprint's days contain D
\* and otherwise the first other sprint in store order whose days contain D;
\* deleteSprint of another id leaves selectedSprintId as it was.
C6_DeleteSelected ==
  [][lastOp'.name = "delete"
       => LET id == lastOp'.arg
          IN  /\ selectedSprintId # id => selectedSprintId' = selectedSprintId
              /\ selectedSprintId = id =>
                   /\ selectedSprintId' = null
                   /\ \A date \in Timestamps :
                        LET others == {j \in 1 .. Len(sprints) :
                                         sprints[j].id # id /\ DayInRange(sprints[j], date)}
                            found == getSprintForDate(sprints', selectedSprintId', date)
                        IN  IF others = {} THEN found = 0
                            ELSE found # 0 /\ sprints'[found] = sprints[Min(others)]]_vars

\* the selected sprint was deleted, another sprint is left, one date has an
\* owner and one has none
C6_Witness ==
  /\ lastOp.name = "delete"
  /\ lastOp.sel = lastOp.arg
  /\ selectedSprintId = null
  /\ Len(sprints) = 1
  /\ \E date \in Timestamps : getSprintForDate(sprints, selectedSprintId, date) = 1
  /\ \E date \in Timestamps : getSprintForDate(sprints, selectedSprintId, date) = 0

\* the palette size the claims speak of
ClaimedPaletteSize == 20

\* C7: a submitted create appends one sprint whose color is palette[colorIndex]
\* as it stood, and sets colorIndex to (colorIndex + 1) mod 20; counted from an
\* empty store with cursor 0, the k-th created sprint has color
\* palette[(k - 1) mod 20], and the 21st the color of the 1st, whatever
\* deletes and edits come between.
C7_ColourRotation ==
  [][lastOp'.name = "create"
       => LET new == sprints'[Len(sprints')]
          IN  /\ sprints' = Append(sprints, new)
              /\ new.color = sprintColors[colorIndex + 1]
              /\ colorIndex' = (colorIndex + 1) % ClaimedPaletteSize
              /\ new.color = sprintColors[((created' - 1) % ClaimedPaletteSize) + 1]
              /\ created' = ClaimedPaletteSize + 1 => new.color = sprintColors[1]]_vars

\* the 21st sprint created since the page opened on an empty storage
C7_Witness ==
  /\ lastOp.name = "create"
  /\ created = ClaimedPaletteSize + 1
  /\ sprints[Len(sprints)].color = sprintColors[1]
  /\ colorIndex = 1

\* the palette positions (from 0) of the colors found in a list
PaletteIndexes(list) ==
  {k \in 0 .. (ClaimedPaletteSize - 1) :
     \E i \in 1 .. Len(list) : list[i].color = sprintColors[k + 1]}

\* C8: after a successful import of a list with at least one palette color,
\* colorIndex is (m + 1) mod 20 for the highest palette position m among the
\* imported colors, and the sprint created next gets that palette color.
C8_ImportCursor ==
  [][/\ (lastOp'.name = "import" /\ PaletteIndexes(sprints') # {})
          => colorIndex' = (Max(PaletteIndexes(sprints')) + 1) % ClaimedPaletteSize
     /\ (lastOp.name = "import" /\ PaletteIndexes(sprints) # {} /\ lastOp'.name = "create")
          => sprints'[Len(sprints')].color =
               sprintColors[((Max(PaletteIndexes(sprints)) + 1) % ClaimedPaletteSize) + 1]]_vars

\* the import of colors at positions 2, 7 and 1, then a create: palette[8]
C8_Witness ==
  /\ lastOp.name = "create"
  /\ Len(sprints) = 4
  /\ sprints[1].color = sprintColors[3]
  /\ sprints[2].color = sprintColors[8]
  /\ sprints[3].color = sprintColors[2]
  /\ sprints[4].color = sprintColors[9]
  /\ colorIndex = 9

\* C9: after a successful import of a list without any palette color (empty,
\* or custom or missing colors only), colorIndex is 0.
C9_ImportNoPaletteColour ==
  (lastOp.name = "import" /\ PaletteIndexes(sprints) = {}) => colorIndex = 0

\* C10: clear-all leaves no sprints, colorIndex 0 and no selection, whatever
\* they were, and the sprint created next gets palette[0].
C10_ClearAll ==
  [][/\ lastOp'.name = "clear"
          => sprints' = << >> /\ colorIndex' = 0 /\ selectedSprintId' = null
     /\ (lastOp.name = "clear" /\ lastOp'.name = "create")
          => sprints' = << sprints'[1] >> /\ sprints'[1].color = sprintColors[1]]_vars

\* clear-all ran on a store with a selected sprint, and storage holds the
\* empty state
C10_Witness ==
  /\ lastOp.name = "clear"
  /\ lastOp.sel # null
  /\ sprints = << >>
  /\ colorIndex = 0
  /\ storage = SaveText(<< >>, 0)

\* C11: when the page is closed and opened again, the load effect decodes
\* the text the save effect wrote to the sprint sequence that was in memory,
\* in the same order and with equal id, name, description, color, startDate
\* and endDate, and to the same colorIndex.
C11_PersistRoundTrip ==
  [][(lastOp.name = "reload" /\ lastOp'.name = "mount")
       => /\ sprints' = lastOp.arg[1]
          /\ colorIndex' = lastOp.arg[2]
          /\ storage' = storage]_vars

\* reopened on two overlapping sprints, one without a description and one
\* created at a time of day, with the cursor past 0
C11_Witness ==
  /\ lastOp.name = "mount"
  /\ created = 1
  /\ Len(sprints) = 2
  /\ sprints[1].description = undefined
  /\ sprints[2].startDate % TicksPerDay # 0
  /\ DayOf(sprints[2].startDate) <= DayOf(sprints[1].endDate)
  /\ DayOf(sprints[1].startDate) <= DayOf(sprints[2].endDate)
  /\ colorIndex = 8

\* C12: the text exportSprints offers is the bare array of the sprints,
\* without the colorIndex wrapper, and what the import reads out of it is
\* the exported sprint sequence, field by field and in the same order; an
\* import makes the store what it reads out of the file.
C12_ExportImportRoundTrip ==
  [][/\ lastOp'.name = "export"
          => \E text \in files' :
               /\ text.kind = "array"
               /\ Len(text.sprints) = Len(sprints)
               /\ SprintsFromJson(text.sprints) = sprints
               /\ \A i \in 1 .. Len(sprints) :
                    /\ text.sprints[i].id = sprints[i].id
                    /\ text.sprints[i].name = sprints[i].name
                    /\ text.sprints[i].description = sprints[i].description
                    /\ text.sprints[i].color = sprints[i].color
                    /\ text.sprints[i].startDate = [tag |-> "iso", ms |-> sprints[i].startDate]
                    /\ text.sprints[i].endDate = [tag |-> "iso", ms |-> sprints[i].endDate]
     /\ lastOp'.name = "import"
          => \E text \in pending \ pending' :
               /\ Len(sprints') = Len(text.sprints)
               /\ \A i \in 1 .. Len(sprints') :
                    /\ sprints'[i].id = text.sprints[i].id
                    /\ sprints'[i].name = text.sprints[i].name
                    /\ sprints'[i].description = text.sprints[i].description
                    /\ sprints'[i].color = text.sprints[i].color
                    /\ text.sprints[i].startDate = [tag |-> "iso", ms |-> sprints'[i].startDate]
                    /\ text.sprints[i].endDate = [tag |-> "iso", ms |-> sprints'[i].endDate]]_vars

\* two created sprints, one starting at a time of day, were exported and
\* the exported file was imported
C12_Witness ==
  /\ lastOp.name = "import"
  /\ Len(sprints) = 2
  /\ sprints[1].name = "A"
  /\ sprints[1].description = "goal"
  /\ sprints[2].startDate % TicksPerDay # 0
  /\ ExportText(sprints) \in files
  /\ created = 2

\* C13: after a successful import the store holds exactly the sprints of the
\* file, in the file's order, so none of the sprints it held before; and
\* selectedSprintId is null whatever was selected, also when a sprint of the
\* file has the id that was selected.
C13_ImportReplaces ==
  [][lastOp'.name = "import"
       => /\ selectedSprintId' = null
          /\ \E text \in pending \ pending' :
               /\ Len(sprints') = Len(text.sprints)
               /\ \A i \in 1 .. Len(sprints') :
                    /\ sprints'[i].id = text.sprints[i].id
                    /\ sprints'[i].name = text.sprints[i].name
                    /\ sprints'[i].color = text.sprints[i].color
                    /\ sprints'[i].description = text.sprints[i].description]_vars

\* sprint "1" was selected when a file holding a sprint with id "1" was
\* imported
C13_Witness ==
  /\ lastOp.name = "import"
  /\ lastOp.sel = "1"
  /\ selectedSprintId = null
  /\ \E i \in 1 .. Len(sprints) : sprints[i].id = "1"
  /\ \A i \in 1 .. Len(sprints) : sprints[i].name = "Imported"

\* C14: the import of a text that is not a JSON array (not parseable, another
\* JSON value, the {sprints, colorIndex} envelope) and the startup on a
\* stored text that is not an envelope (not parseable, another JSON value, a
\* bare array) leave sprints, colorIndex and selectedSprintId all as they
\* were.
C14_CorruptInputAborts ==
  [][/\ (lastOp'.name \in {"import", "importFailed"}
           /\ \E text \in pending \ pending' : text.kind # "array")
          => /\ lastOp'.name = "importFailed"
             /\ sprints' = sprints
             /\ colorIndex' = colorIndex
             /\ selectedSprintId' = selectedSprintId
     /\ (lastOp'.name = "mount" /\ storage.kind \notin {"envelope", "absent"})
          => /\ sprints' = sprints
             /\ colorIndex' = colorIndex
             /\ selectedSprintId' = selectedSprintId]_vars

\* the import of an envelope failed on a page with a sprint, a selection and
\* the cursor past 0
C14_Witness ==
  /\ lastOp = [name |-> "importFailed", arg |-> "envelope", sel |-> selectedSprintId]
  /\ selectedSprintId # null
  /\ Len(sprints) >= 1
  /\ colorIndex # 0

\* C15: a sprint decoded by the load effect or by the import with
\* startDate > endDate, or without id, name, startDate, endDate or color, is
\* rejected and never becomes part of the store: every sprint in the store
\* has these fields and startDate <= endDate.
C15_RecordsValidated ==
  \A i \in 1 .. Len(sprints) :
    /\ sprints[i].id # undefined
    /\ sprints[i].name # undefined
    /\ sprints[i].color # undefined
    /\ sprints[i].startDate # InvalidDate
    /\ sprints[i].endDate # InvalidDate
    /\ sprints[i].startDate <= sprints[i].endDate

\* C16: whatever is submitted in the create dialog (any start date, a preset
\* or any custom duration input) and whatever is picked, unpicked and typed
\* in an edit row before Save, every sprint in the store has a non-empty name
\* and startDate <= endDate; and a submission or a Save with an empty name or
\* a missing date changes neither sprints nor colorIndex.
C16_SprintValidity ==
  [][/\ \A i \in 1 .. Len(sprints') :
          /\ sprints'[i].name # ""
          /\ sprints'[i].startDate \notin {NoDate, InvalidDate}
          /\ sprints'[i].endDate \notin {NoDate, InvalidDate}
          /\ sprints'[i].startDate <= sprints'[i].endDate
     /\ (\/ lastOp'.name = "createRejected"
         \/ (lastOp'.name \in {"update", "updateRejected"}
               /\ (editName = "" \/ editStartDate = NoDate \/ editEndDate = NoDate)))
          => /\ sprints' = sprints
             /\ colorIndex' = colorIndex
             /\ lastOp'.name # "update"]_vars

\* a Save after the start date was picked past the end date: the sprint is
\* the last day alone
C16_Witness ==
  /\ lastOp.name = "update"
  /\ Len(sprints) = 1
  /\ sprints[1].name = "B"
  /\ sprints[1].startDate = (NumDays - 1) * TicksPerDay
  /\ sprints[1].endDate = (NumDays - 1) * TicksPerDay

\* C17: an update with a record whose id no stored sprint has does not
\* complete as an update: it fails, and the sprints are left as they were.
C17_UpdateUnknownIdFails ==
  [][~(/\ lastOp'.name = "onUpdate"
       /\ \A i \in 1 .. Len(sprints) : sprints[i].id # lastOp'.arg)]_vars

\* C18: saving an edit of a sprint leaves the number of sprints, colorIndex
\* and selectedSprintId as they were, leaves every record with another id as
\* it was, and changes a record with the sprint's id in its name,
\* description, startDate and endDate at most: its id and color stay.
C18_UpdateFrame ==
  [][lastOp'.name = "update"
       => /\ Len(sprints') = Len(sprints)
          /\ colorIndex' = colorIndex
          /\ selectedSprintId' = selectedSprintId
          /\ \A i \in 1 .. Len(sprints) :
               IF sprints[i].id = lastOp'.arg
               THEN /\ sprints'[i].id = sprints[i].id
                    /\ sprints'[i].color = sprints[i].color
               ELSE sprints'[i] = sprints[i]]_vars

\* the sprints of list whose id is not id, in the order of list
Remaining(list, id) == SelectSeq(list, LAMBDA sprint : sprint.id # id)

\* C19: deleteSprint(id) completes without an error for every id; afterwards
\* the store holds the sprints with another id, with their fields and in
\* their order, and colorIndex is as it was; when no sprint has the id the
\* sprints are as they were.
C19_DeleteFrame ==
  [][lastOp'.name \in {"delete", "deleteFailed"}
       => /\ lastOp'.name = "delete"
          /\ sprints' = Remaining(sprints, lastOp'.arg)
          /\ colorIndex' = colorIndex
          /\ (\A i \in 1 .. Len(sprints) : sprints[i].id # lastOp'.arg)
               => sprints' = sprints]_vars

\* the first of two created sprints was deleted and the second is left
C19_Witness ==
  /\ lastOp.name = "delete"
  /\ lastOp.arg = "1"
  /\ created = 2
  /\ colorIndex = 2
  /\ Len(sprints) = 1
  /\ sprints[1].id = "2"
  /\ sprints[1].color = PaletteAt(1)

\* C20: in every state reached by creates, updates, deletes and clear-all,
\* whatever the clock returns at each create, the ids of the stored sprints
\* are pairwise distinct.
C20_IdsPairwiseDistinct ==
  \A i, j \in 1 .. Len(sprints) : i # j => sprints[i].id # sprints[j].id

\* C21: whenever the page is mounted and no handler is running, the text in
\* storage is an envelope that decodes to the sprints and the colorIndex in
\* memory: each create, update, delete, clear-all and successful import has
\* written its own result before the next operation starts.
C21_WriteThrough ==
  mounted => /\ storage.kind = "envelope"
             /\ SprintsFromJson(storage.sprints) = sprints
             /\ storage.colorIndex = colorIndex

\* an import into a page that held created sprints: storage holds the two
\* sprints of the file and the cursor recomputed from them
C21_Witness ==
  /\ mounted
  /\ lastOp.name = "import"
  /\ created > 0
  /\ Len(sprints) = 2
  /\ colorIndex = 8
  /\ Len(storage.sprints) = 2
  /\ storage.colorIndex = 8

\* the operations that may set colorIndex
CursorOps == {"create", "clear", "import", "mount"}

\* C22: while the page stays mounted colorIndex changes only in a create, a
\* clear-all, a successful import or the startup load; a create sets it to
\* (colorIndex + 1) mod the palette size and a clear-all to 0; update,
\* delete, the clicks on the list and the grids, export, choosing a file and
\* a failed import leave it as it was.
C22_CursorFrame ==
  [][/\ (mounted' /\ colorIndex' # colorIndex) => lastOp'.name \in CursorOps
     /\ lastOp'.name = "create" => colorIndex' = (colorIndex + 1) % PaletteSize
     /\ lastOp'.name = "clear" => colorIndex' = 0
     /\ (mounted' /\ lastOp'.name \notin CursorOps) => colorIndex' = colorIndex]_vars

\* the last of the created sprints was deleted and the cursor stays past them
C22_Witness ==
  /\ lastOp.name = "delete"
  /\ sprints = << >>
  /\ created = MaxCreated
  /\ colorIndex = MaxCreated

\* C23: whatever ran between choosing a file and the end of its read, and
\* with another read pending, a read that completes leaves the records of
\* that one file as the sprints (in its order, with its ids, names, colors
\* and dates), the cursor recomputed from that file's colors alone and no
\* selection; the other file stays pending; choosing no file changes nothing.
C23_ImportAtomic ==
  [][/\ lastOp'.name = "import"
          => \E text \in pending \ pending' :
               /\ pending' = pending \ {text}
               /\ selectedSprintId' = null
               /\ colorIndex' = (Max(PaletteIndexes(text.sprints) \cup {0}) + 1) % PaletteSize
               /\ Len(sprints') = Len(text.sprints)
               /\ \A i \in 1 .. Len(sprints') :
                    /\ sprints'[i].id = text.sprints[i].id
                    /\ sprints'[i].name = text.sprints[i].name
                    /\ sprints'[i].color = text.sprints[i].color
                    /\ sprints'[i].startDate = NewDate(text.sprints[i].startDate)
                    /\ sprints'[i].endDate = NewDate(text.sprints[i].endDate)
     /\ lastOp'.name = "chooseNothing"
          => /\ sprints' = sprints
             /\ colorIndex' = colorIndex
             /\ selectedSprintId' = selectedSprintId
             /\ pending' = pending]_vars

\* the read of the one-sprint file completed last, after a create that ran
\* while it was pending
C23_Witness ==
  /\ lastOp.name = "import"
  /\ pending = {}
  /\ created > 0
  /\ Len(sprints) = 1
  /\ sprints[1].id = "2"
  /\ colorIndex = 4

\* C24: in every state of the page, from startup on and after any create,
\* update, delete, clear-all, import and click on the list or a grid,
\* selectedSprintId is null or the id of a stored sprint.
C24_NoDanglingSelection ==
  \/ selectedSprintId = null
  \/ \E i \in 1 .. Len(sprints) : sprints[i].id = selectedSprintId

\* another sprint than the selected one was deleted: the selection stays on
\* the sprint that is left
C24_Witness ==
  /\ lastOp.name = "delete"
  /\ lastOp.arg # selectedSprintId
  /\ lastOp.sel = selectedSprintId
  /\ Len(sprints) = 1
  /\ selectedSprintId = sprints[1].id

\* C25: in every state of the page, also after the load of an envelope with
\* any integer colorIndex, colorIndex is one of 0 .. 19, and the sprint a
\* create has just added has one of the palette's colors.
C25_CursorInRange ==
  /\ colorIndex \in 0 .. (ClaimedPaletteSize - 1)
  /\ lastOp.name = "create"
       => \E k \in 1 .. ClaimedPaletteSize : sprints[Len(sprints)].color = sprintColors[k]

\* C26: when the page opens on a stored envelope that holds sprints, with
\* the mount effects run once or run twice (load, save, load, save), then
\* after startup the sprints and colorIndex in memory are the stored ones and
\* storage holds the same text again.
C26_StartupKeepsData ==
  [][(/\ lastOp'.name \in {"mount", "mountTwice"}
      /\ storage.kind = "envelope"
      /\ storage.sprints # << >>)
       => /\ sprints' = SprintsFromJson(storage.sprints)
          /\ colorIndex' = storage.colorIndex
          /\ storage' = storage]_vars

\* C27: a click on a day in the month grid or in the year grid sets
\* selectedSprintId by one rule: to the id of the sprint the day is shown
\* with, to null when that sprint is the selected one, and to null when the
\* day is shown with no sprint.
C27_GridsSameRule ==
  [][lastOp'.name \in {"monthClick", "yearClick"}
       => selectedSprintId' = IF lastOp'.arg = null \/ lastOp'.arg = selectedSprintId
                              THEN null
                              ELSE lastOp'.arg]_vars

\* C29: for every sprint and every selected date, at any time of day of the
\* date, of startDate and of endDate, the list's isDateInSprint is true
\* exactly when the day of the date is from the day of startDate to the day
\* of endDate, which is when the grids' day-normalized test is true.
C29_HighlightAgrees ==
  \A i \in 1 .. Len(sprints) : \A date \in Timestamps :
    /\ isDateInSprint(sprints[i], date) <=> DayInRange(sprints[i], date)
    /\ isDateInSprint(sprints[i], date) <=> InRangeNormalized(sprints[i], date)

\* C28: in every state of the sprint list, editingSprint is null or the id
\* of a stored sprint whose row is on the page the list shows.
C28_EditRowExists ==
  \/ editingSprint = null
  \/ \E i \in 1 .. Len(sprints) : sprints[i].id = editingSprint /\ Visible(i)

\* C30: in every state of the list with pagination, currentPage is at least
\* 1 and at most the larger of 1 and totalPages, and when sprints are stored
\* the page shown has at least one row.
C30_PageInRange ==
  /\ 1 <= currentPage
  /\ currentPage <= (IF totalPages > 1 THEN totalPages ELSE 1)
  /\ sprints # << >> => \E i \in 1 .. Len(sprints) : Visible(i)

====
